---- MODULE Spec2Model ----
(***************************************************************************)
(* Model of MatplotlibWidget (src/graphing_widget.py): the curve list of   *)
(* the plot (ax.get_lines()), the parallel array of display positions      *)
(* (_qlistwidget_indexes_of_lines), the reference curve cell               *)
(* (_ref_index_x_y), the y-limits policy, the look of the curves (label,   *)
(* alpha, line width, z-order) and the legend, under the widget's slots.   *)
(*                                                                         *)
(* Frequencies are powers of two, so that their logarithms are integers,   *)
(* and levels are even integers, so that the log-domain interpolation      *)
(* between two neighbouring samples of the frequency grid is exact.        *)
(* A Python exception that leaves a slot is recorded in last.exc together  *)
(* with whatever the slot had already changed.                             *)
(***************************************************************************)
EXTENDS Integers, Sequences, FiniteSets, TLC

VARIABLES
    lines,    \* ax.get_lines(): the Line2D objects in graph order, each with
              \* its samples x, y, its _original_xy (<<>> when the attribute
              \* is missing), its label, alpha, line width and z-order and,
              \* as history, the data it was added with
    qidx,     \* _qlistwidget_indexes_of_lines
    ref,      \* _ref_index_x_y: <<>> is None, else <<[i, x, y]>>
    policy,   \* y_limits_policy["name"]
    legend,   \* ax.get_legend(): <<>> is None, else <<[handles, title]>>
    ylim,     \* ax.get_ylim(): <<>> while the y axis autoscales, else
              \* <<bottom, top>> as the last set_ylim left it
    max_legend_size,  \* app_settings.max_legend_size
    interp,   \* the lru_cache of _reference_curve_interpolated, most recent
              \* entry first, with the last call made through it and, as
              \* history, the first call ever made
    nextId,   \* identity of the next Line2D object created
    last,     \* the last slot called, the exception leaving it, the signal emitted
    pre,      \* history: the line activated as reference, its look and every
              \* curve's (x, y) at that moment; <<>> before any activation
    misuse    \* history: calls made so far with arguments outside the list

vars == <<lines, qidx, ref, policy, legend, ylim, max_legend_size, interp, nextId, last, pre,
          misuse>>

\* ---------------------------------------------------------------- bounds
MaxAdds == 3
MaxRemove == 2
MaxMisuse == 1
MaxAddsAny == 2
MaxAddsVis == 2
MaxUpdates == 1
MaxAddsLim == 2
MaxCache == 2

\* ------------------------------------------------------ program constants
\* np.nan, the value np.interp gives outside the reference's range
NaN == -1000
\* None stored in _ref_index_x_y[0] by dict.get(..., None)
NoneIdx == -99
\* Line2D.get_alpha() in tenths; 0 stands for None, the alpha of a new line
AlphaNone == 0
AlphaHidden == 1
AlphaNormal == 9
AlphaHighlighted == 10
\* plt.rcParams['lines.linewidth'], the unit being a tenth of it
LwDefault == 10
\* the distance between the z-order bands of update_figure
ZorderOffset == 1000000

\* -------------------------------------------------------------- helpers
Range(s) == {s[k] : k \in 1..Len(s)}

\* The curves handed to add_line2d: x strictly increasing, x and y alike long.
Curves ==
    { [x |-> <<1, 4>>, y |-> <<0, 4>>],
      [x |-> <<2, 4>>, y |-> <<2, 6>>] }

\* What any caller can hand to add_line2d besides: x that is not increasing,
\* x and y of different lengths (none of length 1, so numpy broadcasts nothing).
AnyCurves ==
    Curves \cup { [x |-> <<4, 1>>, y |-> <<0, 4>>],
                  [x |-> <<1, 4>>, y |-> <<0, 4, 2>>] }

\* np.log on the frequency grid, in units of log 2
Log(x) == CHOOSE e \in 0..4 : 2^e = x

\* float subtraction: anything minus nan, or nan minus anything, is nan
Sub(a, b) == IF a = NaN \/ b = NaN THEN NaN ELSE a - b

\* Variant of InterpAt with np.interp's default left and right: the end
\* values of fp.
InterpAtClamped(t, xp, fp) ==
    IF t < xp[1] THEN fp[1]
    ELSE IF t > xp[Len(xp)] THEN fp[Len(xp)]
    ELSE IF \E k \in 1..Len(xp) : xp[k] = t
         THEN fp[CHOOSE k \in 1..Len(xp) : xp[k] = t]
         ELSE LET k == CHOOSE j \in 1..Len(xp) - 1 : xp[j] < t /\ t < xp[j + 1]
              IN  fp[k] + ((fp[k + 1] - fp[k]) * (t - xp[k])) \div (xp[k + 1] - xp[k])

\* np.interp(t, xp, fp, left=nan, right=nan) for one target t
InterpAt(t, xp, fp) ==
    IF t < xp[1] \/ t > xp[Len(xp)] THEN NaN
    ELSE IF \E k \in 1..Len(xp) : xp[k] = t
         THEN fp[CHOOSE k \in 1..Len(xp) : xp[k] = t]
         ELSE LET k == CHOOSE j \in 1..Len(xp) - 1 : xp[j] < t /\ t < xp[j + 1]
              IN  fp[k] + ((fp[k + 1] - fp[k]) * (t - xp[k])) \div (xp[k + 1] - xp[k])

\* _reference_curve_interpolated(x, reference_curve_x, reference_curve_y)
ReferenceCurveInterpolated(x, rx, ry) ==
    [k \in 1..Len(x) |->
        InterpAt(Log(x[k]), [j \in 1..Len(rx) |-> Log(rx[j])], ry)]

\* y - ref_y_intp, elementwise
SubSeq2(y, d) == [k \in 1..Len(y) |-> Sub(y[k], d[k])]

\* new_xy[:, ~np.isnan(new_xy[1])] on one of the two rows
RECURSIVE Mask(_, _)
Mask(row, y) ==
    IF Len(y) = 0 THEN <<>>
    ELSE (IF Head(y) = NaN THEN <<>> ELSE <<Head(row)>>) \o Mask(Tail(row), Tail(y))

\* ------------------------------------------------------------ the state
\* The fields of the widget a slot reads and writes, as one value.
Cur ==
    [lines |-> lines, qidx |-> qidx, ref |-> ref, policy |-> policy,
     legend |-> legend, ylim |-> ylim, max_legend_size |-> max_legend_size]

HasRef(st) == st.ref # <<>>
RefI(st) == st.ref[1].i

\* What a slot call leaves behind for the caller to see.
\* arg: the position given (add, activate), the positions to remove in the
\* order the loop visits them (remove), the alpha each updated curve had
\* before (update_labels_and_visibilities), or the policy name the call
\* found (deactivate).
Last(op, arg, exc, sig) == [op |-> op, arg |-> arg, exc |-> exc, sig |-> sig]

\* ------------------------------------------------- display order lookups
\* np.argsort(self._qlistwidget_indexes_of_lines): graph indexes by display
\* position (equal positions keep their graph order)
ArgSort(q) ==
    LET rank(g) == Cardinality({h \in 1..Len(q) :
                        q[h] < q[g] \/ (q[h] = q[g] /\ h < g)}) + 1
    IN  [r \in 1..Len(q) |-> CHOOSE g \in 1..Len(q) : rank(g) = r]

\* get_lines_in_qlist_order raises IndexError when the position array is
\* longer than the list of lines
LinesInQlistOrderRaises(st) == Len(st.qidx) > Len(st.lines)

\* get_lines_in_qlist_order(): the lines ordered as in the list widget
GetLinesInQlistOrder(st) ==
    [r \in 1..Len(st.qidx) |-> st.lines[ArgSort(st.qidx)[r]]]

\* get_line_in_qlist_order(qlist_index) raises IndexError when no entry of
\* the position array equals qlist_index, or when that entry has no line
LineInQlistOrderRaises(st, i) ==
    \/ ~ \E g \in 1..Len(st.qidx) : st.qidx[g] = i
    \/ (CHOOSE g \in 1..Len(st.qidx) :
            st.qidx[g] = i /\ \A h \in 1..g - 1 : st.qidx[h] # i) > Len(st.lines)

\* get_line_in_qlist_order(qlist_index): graph index of the line found
GraphIndexOf(st, i) ==
    CHOOSE g \in 1..Len(st.qidx) :
        st.qidx[g] = i /\ \A h \in 1..g - 1 : st.qidx[h] # i

\* -------------------------------------------------------- update_figure
\* The part of a label the SPL policy looks for.
XpeakLimited == "Xpeak limited"

Max2(a, b) == IF a >= b THEN a ELSE b
Min2(a, b) == IF a <= b THEN a ELSE b

\* 5 * np.ceil(v / 5) for an integer v.
Ceil5(v) == 5 * (-((-v) \div 5))

\* Python's max(arr) and min(arr) over a non-empty array: the running value
\* starts as the first element and a comparison with NaN is never true.
PyMax(y) ==
    IF y[1] = NaN THEN NaN
    ELSE CHOOSE v \in Range(y) \ {NaN} : \A w \in Range(y) \ {NaN} : v >= w
PyMin(y) ==
    IF y[1] = NaN THEN NaN
    ELSE CHOOSE v \in Range(y) \ {NaN} : \A w \in Range(y) \ {NaN} : v <= w

\* np.max(np.abs(y)) over the samples of every line (no NaN among them).
MaxAbs(lns) ==
    LET a == UNION {{IF lns[g].y[k] < 0 THEN -lns[g].y[k] ELSE lns[g].y[k] :
                        k \in 1..Len(lns[g].y)} : g \in 1..Len(lns)}
    IN  CHOOSE v \in a : \A w \in a : v >= w

\* The "reference_curve" policy: (-graph_max, graph_max).
ReferenceCurveLimits(lns) ==
    LET graph_max == Max2(Ceil5(MaxAbs(lns) - 2), 1)
    IN  <<-graph_max, graph_max>>

\* Variant of SplLimits without the headroom above the maximum.
SplLimitsNoHeadroom(y_arrays) ==
    LET y_max == PyMax([g \in 1..Len(y_arrays) |-> PyMax(y_arrays[g])])
        y_min == PyMin([g \in 1..Len(y_arrays) |-> PyMin(y_arrays[g])])
        graph_max == Ceil5(y_max)
        graph_range == Ceil5(Min2(45, Max2(20, graph_max - y_min)))
    IN  <<graph_max - graph_range, graph_max>>

\* The "SPL" policy over the arrays it keeps (no NaN in front of them).
SplLimits(y_arrays) ==
    LET y_max == PyMax([g \in 1..Len(y_arrays) |-> PyMax(y_arrays[g])])
        y_min == PyMin([g \in 1..Len(y_arrays) |-> PyMin(y_arrays[g])])
        graph_max == Ceil5(y_max + 3)
        graph_range == Ceil5(Min2(45, Max2(20, graph_max - y_min)))
    IN  <<graph_max - graph_range, graph_max>>

\* The "impedance" policy.
ImpedanceLimits(y_arrays) ==
    LET y_max == PyMax([g \in 1..Len(y_arrays) |-> PyMax(y_arrays[g])])
    IN  <<0, Ceil5(y_max + 2)>>

\* The y arrays of the lines the SPL policy keeps, in graph order.
RECURSIVE SplArrays(_)
SplArrays(lns) ==
    IF Len(lns) = 0 THEN <<>>
    ELSE (IF XpeakLimited \in Range(Head(lns).label) THEN <<>> ELSE <<Head(lns).y>>)
             \o SplArrays(Tail(lns))

\* The limits part of update_figure (lines 135-172) when it raises nothing:
\* a policy name that no branch knows leaves the limits as they are.
SetLimits(st) ==
    IF st.policy = "None" THEN [st EXCEPT !.ylim = <<>>]
    ELSE IF st.policy = "reference_curve"
    THEN [st EXCEPT !.ylim = ReferenceCurveLimits(st.lines)]
    ELSE IF st.policy = "SPL" /\ Len(SplArrays(st.lines)) > 0
    THEN [st EXCEPT !.ylim = SplLimits(SplArrays(st.lines))]
    ELSE IF st.policy = "impedance" /\ Len(st.lines) > 0
    THEN [st EXCEPT !.ylim = ImpedanceLimits([g \in 1..Len(st.lines) |-> st.lines[g].y])]
    ELSE IF st.policy = "phase" THEN [st EXCEPT !.ylim = <<-180, 180>>]
    ELSE st

\* The exception update_figure ends with, "none" when it returns.
UpdateFigureExc(st, recalculate_limits) ==
    IF LinesInQlistOrderRaises(st) THEN "IndexError"
    ELSE IF Len(st.lines) > 0 /\ HasRef(st) /\ LineInQlistOrderRaises(st, RefI(st))
    THEN "IndexError"
    ELSE IF ~recalculate_limits THEN "none"
    ELSE IF st.policy = "reference_curve"
            /\ (\/ Len(st.lines) = 0
                \/ \E g \in 1..Len(st.lines) :
                      \/ Len(st.lines[g].y) = 0
                      \/ NaN \in Range(st.lines[g].y))
    THEN "ValueError"
    ELSE IF st.policy = "SPL"
            /\ \E g \in 1..Len(st.lines) :
                  /\ XpeakLimited \notin Range(st.lines[g].label)
                  /\ \/ Len(st.lines[g].y) = 0
                     \/ st.lines[g].y[1] = NaN
    THEN "ValueError"
    ELSE IF st.policy = "impedance"
            /\ Len(st.lines) > 0
            /\ \/ \E g \in 1..Len(st.lines) : Len(st.lines[g].y) = 0
               \/ st.lines[1].y[1] = NaN
    THEN "ValueError"
    ELSE "none"

\* The display rank (0-based) update_figure's enumerate gives graph index g.
RankOf(q, g) == (CHOOSE r \in 1..Len(q) : ArgSort(q)[r] = g) - 1

\* Variant of SetZorders that orders by display position alone.
SetZordersNoBands(st) ==
    [g \in 1..Len(st.lines) |->
        IF g > Len(st.qidx) THEN st.lines[g]
        ELSE [st.lines[g] EXCEPT !.zorder = Len(st.qidx) - RankOf(st.qidx, g)]]

\* line.set_zorder(n_lines - i + zorder_offset) for every line of the
\* position array; labels are never empty, so get_label()[0] exists.
SetZorders(st) ==
    [g \in 1..Len(st.lines) |->
        IF g > Len(st.qidx) THEN st.lines[g]
        ELSE LET i == RankOf(st.qidx, g)
                 line == st.lines[g]
                 zorder_offset ==
                     IF line.label[1] = "_" \/ (HasRef(st) /\ RefI(st) = i)
                     THEN -ZorderOffset
                     ELSE IF line.alpha = AlphaHighlighted THEN ZorderOffset
                     ELSE 0
             IN  [line EXCEPT !.zorder = Len(st.qidx) - i + zorder_offset]]

\* get_visible_lines_in_qlist_order(), as line identities
GetVisibleLinesInQlistOrder(st) ==
    LET vis == SelectSeq(GetLinesInQlistOrder(st),
                         LAMBDA l : l.alpha # AlphaHidden)
    IN  [r \in 1..Len(vis) |-> vis[r].id]

\* handles[:max_legend_size] when max_legend_size > 0
Truncated(handles, size) ==
    IF size > 0 /\ size < Len(handles) THEN SubSeq(handles, 1, size) ELSE handles

\* label.removeprefix("_").removesuffix(" - reference")
LegendTitle(label) ==
    LET t == IF Len(label) > 0 /\ label[1] = "_" THEN Tail(label) ELSE label
    IN  IF Len(t) > 0 /\ t[Len(t)] = " - reference"
        THEN SubSeq(t, 1, Len(t) - 1) ELSE t

\* _place_ordered_legend(): a new legend only when a handle is left; the
\* lookup of the reference line may raise IndexError before that.
PlaceOrderedLegend(st) ==
    LET handles == GetVisibleLinesInQlistOrder(st)
    IN  IF HasRef(st) /\ LineInQlistOrderRaises(st, RefI(st)) THEN st
        ELSE IF Len(handles) = 0 THEN st
        ELSE [st EXCEPT !.legend =
                <<[handles |-> Truncated(handles, st.max_legend_size),
                   title |-> IF HasRef(st)
                             THEN <<LegendTitle(st.lines[GraphIndexOf(st, RefI(st))].label)>>
                             ELSE <<>>]>>]

\* update_figure(recalculate_limits): the widget it leaves, as far as it
\* got (show_legend is left at its default, True).
UpdateFigure(st, recalculate_limits) ==
    IF LinesInQlistOrderRaises(st) THEN st
    ELSE LET z == [st EXCEPT !.lines = SetZorders(st)]
             l == IF Len(z.lines) > 0 THEN PlaceOrderedLegend(z)
                  ELSE [z EXCEPT !.legend = <<>>]
         IN  IF recalculate_limits /\ UpdateFigureExc(st, TRUE) = "none"
             THEN SetLimits(l) ELSE l

\* ----------------------------------------------------- the slots' inputs
\* The arguments the list widget can produce for the list it shows.
ValidInsert(i) == 0 <= i /\ i <= Len(qidx)
ValidPosition(i) == 0 <= i /\ i < Len(qidx)
ValidRemove(ix) ==
    /\ \A k \in 1..Len(ix) : ValidPosition(ix[k])
    /\ \A a, b \in 1..Len(ix) : ix[a] = ix[b] => a = b
ValidOrder(new_indexes) ==
    /\ DOMAIN new_indexes = 0..Len(qidx) - 1
    /\ {new_indexes[a] : a \in DOMAIN new_indexes} = 0..Len(qidx) - 1

\* A call is counted as misuse when its arguments are not valid.
Called(valid) ==
    /\ valid \/ misuse < MaxMisuse
    /\ misuse' = IF valid THEN misuse ELSE misuse + 1

\* The history of pre-activation samples is kept while a reference is active.
KeepPre(st) == IF HasRef(st) THEN pre ELSE <<>>

\* Writes a slot's resulting fields back into the widget. A slot sees the
\* memoized function through its value only (ReferenceCurveInterpolated);
\* the cache itself is followed in SpecInterp.
Store(st) ==
    /\ lines' = st.lines
    /\ qidx' = st.qidx
    /\ ref' = st.ref
    /\ policy' = st.policy
    /\ legend' = st.legend
    /\ ylim' = st.ylim
    /\ interp' = interp
    /\ max_legend_size' = st.max_legend_size

\* ------------------------------------------------------------ add_line2d
\* The curve as pasted: rebased against the stored reference, if any.
AddRebased(st, data) ==
    IF HasRef(st)
    THEN SubSeq2(data.y, ReferenceCurveInterpolated(data.x, st.ref[1].x, st.ref[1].y))
    ELSE data.y

\* Variant of AddShift that leaves the curve at i_insert where it is.
AddShiftAbove(q, i_insert) ==
    Append([g \in 1..Len(q) |-> IF q[g] > i_insert THEN q[g] + 1 ELSE q[g]],
           i_insert)

\* The position array after an insertion at i_insert.
AddShift(q, i_insert) ==
    Append([g \in 1..Len(q) |-> IF q[g] >= i_insert THEN q[g] + 1 ELSE q[g]],
           i_insert)

\* The tracked reference position after an insertion at i_insert.
AddRefShift(st, i_insert) ==
    IF HasRef(st) /\ i_insert <= RefI(st)
    THEN <<[st.ref[1] EXCEPT !.i = @ + 1]>>
    ELSE st.ref

\* The widget after the pasting of the curve, up to update_figure; a new
\* Line2D has no alpha, the default line width and z-order 2.
AddResult(st, id, i_insert, label, data) ==
    [st EXCEPT
        !.lines = Append(st.lines, [id |-> id, x |-> data.x,
                                    y |-> AddRebased(st, data), orig |-> <<>>,
                                    label |-> label, alpha |-> AlphaNone,
                                    lw |-> LwDefault, zorder |-> 2,
                                    raw |-> data]),
        !.qidx = AddShift(st.qidx, i_insert),
        !.ref = AddRefShift(st, i_insert)]

\* y_in - ref_y_intp (line 211) and ax.semilogx(x_in, y_in) (line 214) raise
\* ValueError for x and y of different lengths.
AddRaises(data) == Len(data.x) # Len(data.y)

\* add_line2d(i_insert, label, data): resulting widget, exception, signal.
\* i_insert <= None raises TypeError before anything changes; a ValueError
\* comes after the tracked reference position was adjusted.
AddOutcome(st, id, i_insert, label, data) ==
    IF HasRef(st) /\ RefI(st) = NoneIdx
    THEN [st |-> st, exc |-> "TypeError", sig |-> "none"]
    ELSE IF AddRaises(data)
    THEN [st |-> [st EXCEPT !.ref = AddRefShift(st, i_insert)],
          exc |-> "ValueError", sig |-> "none"]
    ELSE LET res == AddResult(st, id, i_insert, label, data)
         IN  [st |-> UpdateFigure(res, TRUE),
              exc |-> UpdateFigureExc(res, TRUE), sig |-> "none"]

Add(i_insert, label, data) ==
    \E out \in {AddOutcome(Cur, nextId, i_insert, label, data)} :
        /\ nextId < MaxAdds
        /\ Called(ValidInsert(i_insert) /\ data \in Curves)
        /\ Store(out.st)
        /\ nextId' = IF Len(out.st.lines) = Len(lines) THEN nextId ELSE nextId + 1
        /\ pre' = KeepPre(out.st)
        /\ last' = Last("add", <<i_insert>>, out.exc, out.sig)

\* ---------------------------------------------- activate_reference_curve
\* Variant of ActivateLine that drops the samples outside the reference's
\* range of x and leaves the y of the others as it was.
ActivateLineUnrebased(line, rx, ry) ==
    LET newy == SubSeq2(line.y, ReferenceCurveInterpolated(line.x, rx, ry))
    IN  [line EXCEPT !.orig = <<[x |-> line.x, y |-> line.y]>>,
                     !.x = Mask(line.x, newy),
                     !.y = Mask(line.y, newy)]

\* One line after the loop body of activate_reference_curve: the samples are
\* kept in _original_xy, the reference is subtracted, undefined samples go.
ActivateLine(line, rx, ry) ==
    LET newy == SubSeq2(line.y, ReferenceCurveInterpolated(line.x, rx, ry))
    IN  [line EXCEPT !.orig = <<[x |-> line.x, y |-> line.y]>>,
                     !.x = Mask(line.x, newy),
                     !.y = Mask(newy, newy)]

\* Variant of ActivateResult whose loop leaves the reference line itself
\* as it was.
ActivateResultSkipsReference(st, i_ref_curve) ==
    LET rl == st.lines[GraphIndexOf(st, i_ref_curve)]
    IN  [st EXCEPT
            !.lines = [g \in 1..Len(st.lines) |->
                         IF g = GraphIndexOf(st, i_ref_curve) THEN st.lines[g]
                         ELSE ActivateLine(st.lines[g], rl.x, rl.y)],
            !.ref = <<[i |-> i_ref_curve, x |-> rl.x, y |-> rl.y]>>,
            !.policy = "reference_curve"]

\* Variant of ActivateResult that leaves the y-limits policy as it was.
ActivateResultKeepsPolicy(st, i_ref_curve) ==
    LET rl == st.lines[GraphIndexOf(st, i_ref_curve)]
    IN  [st EXCEPT
            !.lines = [g \in 1..Len(st.lines) |-> ActivateLine(st.lines[g], rl.x, rl.y)],
            !.ref = <<[i |-> i_ref_curve, x |-> rl.x, y |-> rl.y]>>]

\* The widget after the body of the try block, up to update_figure.
ActivateResult(st, i_ref_curve) ==
    LET rl == st.lines[GraphIndexOf(st, i_ref_curve)]
    IN  [st EXCEPT
            !.lines = [g \in 1..Len(st.lines) |-> ActivateLine(st.lines[g], rl.x, rl.y)],
            !.ref = <<[i |-> i_ref_curve, x |-> rl.x, y |-> rl.y]>>,
            !.policy = "reference_curve"]

\* Variant of ActivateRejects without the check for an active reference.
ActivateNeverRejects(st) == FALSE

\* if self._ref_index_x_y is not None: raise RuntimeError
ActivateRejects(st) == HasRef(st)

\* activate_reference_curve(i_ref_curve): resulting widget, exception that
\* leaves the slot, signal emitted.
ActivateOutcome(st, i_ref_curve) ==
    IF ActivateRejects(st)
    THEN [st |-> st, exc |-> "none", sig |-> "failed"]
    ELSE IF LineInQlistOrderRaises(st, i_ref_curve)
    THEN [st |-> st, exc |-> "IndexError", sig |-> "none"]
    ELSE LET res == ActivateResult(st, i_ref_curve)
             e == UpdateFigureExc(res, TRUE)
         IN  [st |-> UpdateFigure(res, TRUE), exc |-> e,
              sig |-> IF e = "none" THEN "activated" ELSE "none"]

\* What a line looks like: opacity and label.
Look(line) == [alpha |-> line.alpha, label |-> line.label]

\* The samples of every line, by line identity.
Samples(ls) ==
    [id \in {ls[g].id : g \in 1..Len(ls)} |->
        LET l == ls[CHOOSE g \in 1..Len(ls) : ls[g].id = id]
        IN  [x |-> l.x, y |-> l.y]]

Activate(i_ref_curve) ==
    \E out \in {ActivateOutcome(Cur, i_ref_curve)} :
        /\ Called(ValidPosition(i_ref_curve))
        /\ Store(out.st)
        /\ UNCHANGED nextId
        /\ pre' = IF HasRef(Cur) \/ ~HasRef(out.st) THEN KeepPre(out.st)
                  ELSE [ref |-> lines[GraphIndexOf(Cur, i_ref_curve)].id,
                        look |-> Look(lines[GraphIndexOf(Cur, i_ref_curve)]),
                        xy |-> Samples(lines)]
        /\ last' = Last("activate", <<i_ref_curve>>, out.exc, out.sig)

\* -------------------------------------------- deactivate_reference_curve
\* Graph index of the first line without _original_xy, 0 when all have it.
FirstWithoutOriginal(ls) ==
    IF \E g \in 1..Len(ls) : ls[g].orig = <<>>
    THEN CHOOSE g \in 1..Len(ls) :
            ls[g].orig = <<>> /\ \A h \in 1..g - 1 : ls[h].orig # <<>>
    ELSE 0

\* Variant of RestoreLine that restores y and forgets set_xdata.
RestoreLineYOnly(line) == [line EXCEPT !.y = line.orig[1].y]

\* x, y = line2d._original_xy; set_xdata(x); set_ydata(y)
RestoreLine(line) == [line EXCEPT !.x = line.orig[1].x, !.y = line.orig[1].y]

\* The lines after the restoring loop, which stops at the first line that
\* has no _original_xy (AttributeError); stop = 0 when it runs through.
RestoreLoop(ls, stop) ==
    [g \in 1..Len(ls) |->
        IF stop = 0 \/ g < stop THEN RestoreLine(ls[g]) ELSE ls[g]]

\* Variant of DeactivateRejects without the check for a missing reference.
DeactivateNeverRejects(st) == FALSE

\* if self._ref_index_x_y is None: raise RuntimeError
DeactivateRejects(st) == ~HasRef(st)

\* deactivate_reference_curve(): resulting widget, exception, signal.
DeactivateOutcome(st) ==
    IF DeactivateRejects(st)
    THEN [st |-> st, exc |-> "none", sig |-> "failed"]
    ELSE LET stop == FirstWithoutOriginal(st.lines)
             ls == RestoreLoop(st.lines, stop)
         IN  IF stop # 0
             THEN [st |-> [st EXCEPT !.lines = ls],
                   exc |-> "AttributeError", sig |-> "none"]
             ELSE LET res == [st EXCEPT !.lines = ls, !.ref = <<>>,
                                        !.policy = "SPL"]
                      e == UpdateFigureExc(res, TRUE)
                  IN  [st |-> UpdateFigure(res, TRUE), exc |-> e,
                       sig |-> IF e = "none" THEN "deactivated" ELSE "none"]

Deactivate ==
    \E out \in {DeactivateOutcome(Cur)} :
        /\ Store(out.st)
        /\ UNCHANGED <<nextId, pre, misuse>>
        /\ last' = Last("deactivate", <<policy>>, out.exc, out.sig)

\* ------------------------------------------------ remove_multiple_line2d
\* sorted(ix, reverse=True)
RECURSIVE SortedReverse(_)
SortedReverse(ix) ==
    IF Len(ix) = 0 THEN <<>>
    ELSE LET k == CHOOSE j \in 1..Len(ix) :
                    /\ \A h \in 1..Len(ix) : ix[h] <= ix[j]
                    /\ \A h \in 1..j - 1 : ix[h] # ix[j]
             rest == [h \in 1..Len(ix) - 1 |-> IF h < k THEN ix[h] ELSE ix[h + 1]]
         IN  <<ix[k]>> \o SortedReverse(rest)

\* self._ref_index_x_y[0] -= sum(i < self._ref_index_x_y[0] for i in ix)
RemoveRefShift(st, ix) ==
    <<[st.ref[1] EXCEPT
        !.i = @ - Cardinality({k \in 1..Len(ix) : ix[k] < RefI(st)})]>>

\* The position array after one pass of the loop body for index_to_remove.
RemoveShift(q, index_to_remove) ==
    LET kept == SelectSeq(q, LAMBDA v : v # index_to_remove)
    IN  [g \in 1..Len(kept) |->
            IF kept[g] > index_to_remove THEN kept[g] - 1 ELSE kept[g]]

\* Variant of RemoveOrder that visits the positions as given, unsorted.
RemoveOrderAsGiven(ix) == ix

\* The order in which the loop visits the positions to remove.
RemoveOrder(ix) == SortedReverse(ix)

\* The loop over the positions to remove. inorder is the list of line
\* identities taken before the loop; a Python list index may be negative.
RECURSIVE RemoveLoop(_, _, _, _)
RemoveLoop(inorder, todo, ls, q) ==
    IF Len(todo) = 0 THEN [lines |-> ls, qidx |-> q, exc |-> "none"]
    ELSE LET r == Head(todo)
             n == Len(inorder)
         IN  IF r >= n \/ r < -n
             THEN [lines |-> ls, qidx |-> q, exc |-> "IndexError"]
             ELSE LET id == inorder[IF r >= 0 THEN r + 1 ELSE n + r + 1]
                  IN  IF ~ \E g \in 1..Len(ls) : ls[g].id = id
                      THEN [lines |-> ls, qidx |-> q, exc |-> "NotImplementedError"]
                      ELSE RemoveLoop(inorder, Tail(todo),
                                      SelectSeq(ls, LAMBDA l : l.id # id),
                                      RemoveShift(q, r))

\* The widget from the taking of lines_in_qlist_order on.
RemoveLines(st, ix, sig) ==
    IF LinesInQlistOrderRaises(st)
    THEN [st |-> st, exc |-> "IndexError", sig |-> sig]
    ELSE LET inorder == [r \in 1..Len(st.qidx) |-> GetLinesInQlistOrder(st)[r].id]
             res == RemoveLoop(inorder, RemoveOrder(ix), st.lines, st.qidx)
             end == [st EXCEPT !.lines = res.lines, !.qidx = res.qidx]
         IN  [st |-> IF res.exc = "none" /\ Len(ix) > 0
                      THEN UpdateFigure(end, TRUE) ELSE end,
              exc |-> IF res.exc # "none" THEN res.exc
                      ELSE IF Len(ix) > 0 THEN UpdateFigureExc(end, TRUE)
                      ELSE "none",
              sig |-> sig]

\* remove_multiple_line2d(ix): resulting widget, exception, signal.
RemoveOutcome(st, ix) ==
    IF ~HasRef(st) THEN RemoveLines(st, ix, "none")
    ELSE IF RefI(st) = NoneIdx
    THEN [st |-> st, exc |-> "TypeError", sig |-> "none"]
    ELSE IF RefI(st) \in Range(ix)
    THEN LET out == DeactivateOutcome(st)
         IN  IF out.exc # "none" THEN out
             ELSE RemoveLines(out.st, ix, out.sig)
    ELSE RemoveLines([st EXCEPT !.ref = RemoveRefShift(st, ix)], ix, "none")

Remove(ix) ==
    \E out \in {RemoveOutcome(Cur, ix)} :
        /\ Called(ValidRemove(ix))
        /\ Store(out.st)
        /\ UNCHANGED nextId
        /\ pre' = IF HasRef(out.st) \/ out.sig = "deactivated" THEN pre ELSE <<>>
        /\ last' = Last("remove", SortedReverse(ix), out.exc, out.sig)

\* ----------------------------------------------------------- clear_graph
\* clear_graph(): every graph index in display order goes to
\* remove_multiple_line2d; when that returns, ax.clear() empties the axes,
\* legend and limits included.
ClearGraphOutcome(st) ==
    LET ix_to_remove == [r \in 1..Len(st.qidx) |-> ArgSort(st.qidx)[r] - 1]
        out == RemoveOutcome(st, ix_to_remove)
    IN  IF out.exc # "none" THEN out
        ELSE [st |-> [out.st EXCEPT !.lines = <<>>, !.legend = <<>>, !.ylim = <<>>],
              exc |-> "none", sig |-> out.sig]

ClearGraph ==
    \E out \in {ClearGraphOutcome(Cur)} :
        /\ Store(out.st)
        /\ UNCHANGED <<nextId, misuse>>
        /\ pre' = IF HasRef(out.st) \/ out.sig = "deactivated" THEN pre ELSE <<>>
        /\ last' = Last("clear", <<>>, out.exc, out.sig)

\* ---------------------------------------------------- change_lines_order
\* Graph index at which new_indexes[...] raises KeyError, 0 when it never does.
FirstMissingKey(q, new_indexes) ==
    IF \E g \in 1..Len(q) : q[g] \notin DOMAIN new_indexes
    THEN CHOOSE g \in 1..Len(q) :
            /\ q[g] \notin DOMAIN new_indexes
            /\ \A h \in 1..g - 1 : q[h] \in DOMAIN new_indexes
    ELSE 0

\* The position array after the loop, which writes in place up to stop.
ReorderPositions(q, new_indexes, stop) ==
    [g \in 1..Len(q) |->
        IF stop = 0 \/ g < stop THEN new_indexes[q[g]] ELSE q[g]]

\* new_indexes.get(location_ref_curve, None) written to _ref_index_x_y[0]
ReorderRef(st, new_indexes) ==
    IF ~HasRef(st) THEN st.ref
    ELSE <<[st.ref[1] EXCEPT
            !.i = IF @ \in DOMAIN new_indexes THEN new_indexes[@] ELSE NoneIdx]>>

\* change_lines_order(new_indexes): resulting widget, exception, signal.
ReorderOutcome(st, new_indexes) ==
    LET stop == FirstMissingKey(st.qidx, new_indexes)
        q == ReorderPositions(st.qidx, new_indexes, stop)
    IN  IF stop # 0
        THEN [st |-> [st EXCEPT !.qidx = q], exc |-> "KeyError", sig |-> "none"]
        ELSE LET end == [st EXCEPT !.qidx = q, !.ref = ReorderRef(st, new_indexes)]
             IN  [st |-> UpdateFigure(end, FALSE),
                  exc |-> UpdateFigureExc(end, FALSE), sig |-> "none"]

Reorder(new_indexes) ==
    \E out \in {ReorderOutcome(Cur, new_indexes)} :
        /\ Called(ValidOrder(new_indexes))
        /\ Store(out.st)
        /\ UNCHANGED nextId
        /\ pre' = KeepPre(out.st)
        /\ last' = Last("reorder", <<>>, out.exc, out.sig)

\* ---------------------------------------- update_labels_and_visibilities
\* One item of label_and_visibility: the key i and the tuple (new_label,
\* visible, highlighted, reference); label <<>> is None, else <<new_label>>.
\* while new_label[0] == "_": new_label = new_label.removeprefix("_")
RECURSIVE StripMarkers(_)
StripMarkers(label) ==
    IF Len(label) > 0 /\ label[1] = "_" THEN StripMarkers(Tail(label)) ELSE label

\* The label the loop body works on, with its markers stripped.
NewLabel(line, item) ==
    StripMarkers(IF item.label = <<>> THEN line.label ELSE item.label[1])

\* new_label[0] raises IndexError once nothing is left of the label.
RelabelRaises(line, item) == NewLabel(line, item) = <<>>

\* max(a, b)

\* Variant of SetVisibility whose highlighted branch leaves the label alone.
SetVisibilityKeepsMarker(line, item) ==
    IF item.reference \/ (~item.highlighted /\ ~item.visible)
    THEN [line EXCEPT !.alpha = AlphaHidden,
                      !.label = <<"_">> \o NewLabel(line, item)]
    ELSE IF item.highlighted
    THEN [line EXCEPT !.alpha = AlphaHighlighted]
    ELSE [line EXCEPT !.alpha = AlphaNormal,
                      !.label = NewLabel(line, item)]

\* The four branches on reference, highlighted, visible of the loop body.
SetVisibility(line, item) ==
    IF item.reference
    THEN [line EXCEPT !.alpha = AlphaHidden,
                      !.label = <<"_">> \o NewLabel(line, item)]
    ELSE IF item.highlighted
    THEN [line EXCEPT !.alpha = AlphaHighlighted,
                      !.label = NewLabel(line, item),
                      !.lw = IF @ < LwDefault * 2
                             THEN Max2(LwDefault * 2, (@ * 14) \div 10) ELSE @]
    ELSE IF item.visible
    THEN [line EXCEPT !.alpha = AlphaNormal,
                      !.label = NewLabel(line, item),
                      !.lw = IF @ > LwDefault THEN LwDefault ELSE @]
    ELSE [line EXCEPT !.alpha = AlphaHidden,
                      !.label = <<"_">> \o NewLabel(line, item)]

\* The loop over the items. inorder is the list of line identities taken
\* before the loop; a Python list index may be negative.
RECURSIVE RelabelLoop(_, _, _)
RelabelLoop(inorder, items, ls) ==
    IF Len(items) = 0 THEN [lines |-> ls, exc |-> "none"]
    ELSE LET item == Head(items)
             n == Len(inorder)
         IN  IF item.i >= n \/ item.i < -n
             THEN [lines |-> ls, exc |-> "IndexError"]
             ELSE LET id == inorder[IF item.i >= 0 THEN item.i + 1 ELSE n + item.i + 1]
                      g == CHOOSE h \in 1..Len(ls) : ls[h].id = id
                  IN  IF RelabelRaises(ls[g], item)
                      THEN [lines |-> ls, exc |-> "IndexError"]
                      ELSE RelabelLoop(inorder, Tail(items),
                                       [ls EXCEPT ![g] = SetVisibility(ls[g], item)])

\* update_labels_and_visibilities(label_and_visibility): resulting widget,
\* exception, signal.
UpdateLabelsOutcome(st, items) ==
    IF LinesInQlistOrderRaises(st)
    THEN [st |-> st, exc |-> "IndexError", sig |-> "none"]
    ELSE LET inorder == [r \in 1..Len(st.qidx) |-> GetLinesInQlistOrder(st)[r].id]
             res == RelabelLoop(inorder, items, st.lines)
             end == [st EXCEPT !.lines = res.lines]
         IN  IF res.exc # "none" \/ Len(items) = 0
             THEN [st |-> end, exc |-> res.exc, sig |-> "none"]
             ELSE [st |-> UpdateFigure(end, FALSE),
                   exc |-> UpdateFigureExc(end, FALSE), sig |-> "none"]

\* The keys of the mapping are distinct positions of the list.
ValidUpdate(items) ==
    /\ \A k \in 1..Len(items) : ValidPosition(items[k].i)
    /\ \A a, b \in 1..Len(items) : items[a].i = items[b].i => a = b

\* The alpha each updated curve had when the call was made.
AlphasBefore(st, items) ==
    [k \in 1..Len(items) |->
        IF LineInQlistOrderRaises(st, items[k].i) THEN AlphaNone
        ELSE st.lines[GraphIndexOf(st, items[k].i)].alpha]

UpdateLabelsAndVisibilities(items) ==
    \E out \in {UpdateLabelsOutcome(Cur, items)} :
        /\ Called(ValidUpdate(items))
        /\ Store(out.st)
        /\ UNCHANGED nextId
        /\ pre' = KeepPre(out.st)
        /\ last' = Last("relabel", AlphasBefore(Cur, items), out.exc, out.sig)

\* Lists of at most MaxRemove positions out of lo..hi, in any order.
PositionLists(lo, hi) ==
    UNION {[1..k -> lo..hi] : k \in 0..MaxRemove}

\* Bijections of the n display positions onto themselves.
Bijections(n) ==
    {f \in [0..n - 1 -> 0..n - 1] : \A a, b \in 0..n - 1 : f[a] = f[b] => a = b}

\* The labels of the curves; a label is the sequence of its characters.
Labels == {<<"a">>}

\* What the list widget hands over for the list it shows.
InsertArgs == 0..Len(qidx)
ActivateArgs == 0..Len(qidx) - 1
RemoveArgs == {ix \in PositionLists(0, Len(qidx) - 1) : ValidRemove(ix)}
ReorderArgs == Bijections(Len(qidx))

\* The label the list widget sends with an update: None, the curve keeps
\* the label it has.
NewLabels == {<<>>}

\* The mappings of at most MaxUpdates positions with labels out of a set.
UpdateItems(labels) ==
    {items \in UNION {[1..k -> [i : 0..Len(qidx) - 1, label : labels,
                                visible : BOOLEAN, highlighted : BOOLEAN,
                                reference : BOOLEAN]] : k \in 0..MaxUpdates} :
        ValidUpdate(items)}

\* The mappings the list widget sends.
UpdateArgs == UpdateItems(NewLabels)

\* What any caller can hand over: positions out of range, repeated
\* positions, a mapping that maps every position to 0 and one that misses
\* the last position.
AnyInsertArgs == -1..Len(qidx) + 1
AnyActivateArgs == -1..Len(qidx)
AnyRemoveArgs == PositionLists(-1, Len(qidx))
AnyReorderArgs ==
    ReorderArgs \cup {[a \in 0..Len(qidx) - 1 |-> 0]}
                \cup {[a \in 0..Len(qidx) - 2 |-> a]}

\* ------------------------------------------------------------- the widget
Init ==
    /\ lines = <<>>
    /\ qidx = <<>>
    /\ ref = <<>>
    /\ policy = "None"
    /\ legend = <<>>
    /\ ylim = <<>>
    /\ interp = [cache |-> <<>>, call |-> <<>>, first |-> <<>>]
    /\ max_legend_size = 0
    /\ nextId = 0
    /\ pre = <<>>
    /\ misuse = 0
    /\ last = Last("init", <<>>, "none", "none")

\* The widget behind the list widget of the application.
Next ==
    \/ \E i \in InsertArgs, label \in Labels, data \in Curves : Add(i, label, data)
    \/ \E i \in ActivateArgs : Activate(i)
    \/ Deactivate
    \/ \E ix \in RemoveArgs : Remove(ix)
    \/ \E m \in ReorderArgs : Reorder(m)
    \/ ClearGraph

Spec == Init /\ [][Next]_vars

\* The widget under any caller, with at most MaxMisuse invalid calls and
\* at most MaxAddsAny curves added.
NextAnyArgs ==
    \/ \E i \in AnyInsertArgs, label \in Labels, data \in AnyCurves :
           nextId < MaxAddsAny /\ Add(i, label, data)
    \/ \E i \in AnyActivateArgs : Activate(i)
    \/ Deactivate
    \/ \E ix \in AnyRemoveArgs : Remove(ix)
    \/ \E m \in AnyReorderArgs : Reorder(m)

SpecAnyArgs == Init /\ [][NextAnyArgs]_vars

\* The widget with the list widget's visibility updates, for every setting
\* of max_legend_size and at most MaxAddsVis curves added, all with the
\* same samples.
LegendSizes == {-1, 0, 1}

VisCurves == {[x |-> <<1, 4>>, y |-> <<0, 4>>]}

InitVisibility ==
    /\ lines = <<>>
    /\ qidx = <<>>
    /\ ref = <<>>
    /\ policy = "None"
    /\ legend = <<>>
    /\ ylim = <<>>
    /\ interp = [cache |-> <<>>, call |-> <<>>, first |-> <<>>]
    /\ max_legend_size \in LegendSizes
    /\ nextId = 0
    /\ pre = <<>>
    /\ misuse = 0
    /\ last = Last("init", <<>>, "none", "none")

NextVisibility ==
    \/ \E i \in InsertArgs, label \in Labels, data \in VisCurves :
           nextId < MaxAddsVis /\ Add(i, label, data)
    \/ \E i \in ActivateArgs : Activate(i)
    \/ Deactivate
    \/ \E ix \in RemoveArgs : Remove(ix)
    \/ \E m \in ReorderArgs : Reorder(m)
    \/ \E items \in UpdateArgs : UpdateLabelsAndVisibilities(items)

SpecVisibility == InitVisibility /\ [][NextVisibility]_vars

\* The widget under every y-limits policy a caller can set, with curves of
\* a small and of a large span and with labels the SPL policy leaves out;
\* at most MaxAddsLim curves are added.
PolicyNames == {"None", "reference_curve", "SPL", "impedance", "phase", "bogus"}

LimCurves == Curves \cup {[x |-> <<1, 4>>, y |-> <<0, 60>>]}

LimLabels == Labels \cup {<<"a", XpeakLimited>>}

\* set_y_limits_policy(policy_name): stores the name, whatever it is, and
\* draws nothing.
SetYLimitsPolicy(policy_name) ==
    /\ policy' = policy_name
    /\ last' = Last("policy", <<policy_name>>, "none", "none")
    /\ UNCHANGED <<lines, qidx, ref, legend, ylim, max_legend_size, interp, nextId, pre, misuse>>

NextLimits ==
    \/ \E i \in InsertArgs, label \in LimLabels, data \in LimCurves :
           nextId < MaxAddsLim /\ Add(i, label, data)
    \/ \E i \in ActivateArgs : Activate(i)
    \/ Deactivate
    \/ \E ix \in RemoveArgs : Remove(ix)
    \/ \E name \in PolicyNames : SetYLimitsPolicy(name)

SpecLimits == Init /\ [][NextLimits]_vars

\* ------------------------------------------- _reference_curve_interpolated
\* The function behind its lru_cache. The cache holds at most MaxCache
\* entries (maxsize), keyed by the value of the argument tuples.
Targets == {<<1>>, <<4>>, <<16>>, <<1, 4, 16>>, <<2, 8>>}

References ==
    { [x |-> <<2, 8>>, y |-> <<0, 4>>],
      [x |-> <<4>>, y |-> <<2>>],
      [x |-> <<2, 4, 8>>, y |-> <<2, 6, 2>>] }

\* Variant of CacheFind that compares the targets only.
CacheFindByTargets(cache, key) ==
    {k \in 1..Len(cache) : cache[k].key.x = key.x}

\* The cache entries whose key equals the call's arguments.
CacheFind(cache, key) ==
    {k \in 1..Len(cache) : cache[k].key = key}

\* The sequence without its k-th element.
Dropped(s, k) == [j \in 1..Len(s) - 1 |-> IF j < k THEN s[j] ELSE s[j + 1]]

\* One call through the cache: a hit returns the stored result and makes
\* its entry the most recent; a miss computes, stores, and evicts the least
\* recently used entry of a full cache.
CallInterpolated(x, rx, ry) ==
    LET key == [x |-> x, rx |-> rx, ry |-> ry]
        found == CacheFind(interp.cache, key)
        hit == found # {}
        k == CHOOSE j \in found : TRUE
        out == IF hit THEN interp.cache[k].val ELSE ReferenceCurveInterpolated(x, rx, ry)
        rest == IF hit THEN Dropped(interp.cache, k)
                ELSE IF Len(interp.cache) = MaxCache
                THEN SubSeq(interp.cache, 1, MaxCache - 1) ELSE interp.cache
        call == [key |-> key, out |-> out, hit |-> hit]
    IN  /\ interp' = [cache |-> <<[key |-> key, val |-> out]>> \o rest,
                      call |-> <<call>>,
                      first |-> IF interp.first = <<>> THEN <<call>> ELSE interp.first]
        /\ last' = Last("interpolate", <<>>, "none", "none")
        /\ UNCHANGED <<lines, qidx, ref, policy, legend, ylim, max_legend_size, nextId, pre,
                       misuse>>

NextInterp ==
    \E x \in Targets, r \in References : CallInterpolated(x, r.x, r.y)

SpecInterp == Init /\ [][NextInterp]_vars

\* ------------------------------------------------------------ properties
\* The line identities of a widget in display order.
OrderedIds(ls, q) == [r \in 1..Len(q) |-> ls[ArgSort(q)[r]].id]

\* The display position the position array holds for the line `id`.
PositionOf(ls, q, id) == q[CHOOSE g \in 1..Len(ls) : ls[g].id = id]

\* The line holds the samples it was added with.
Unrebased(line) == line.x = line.raw.x /\ line.y = line.raw.y

\* The subsequence of s at the 0-based places outside the list ix.
Without(s, ix) ==
    LET keep == {k \in 1..Len(s) : k - 1 \notin Range(ix)}
        nth(r) == CHOOSE k \in keep : Cardinality({h \in keep : h < k}) = r - 1
    IN  [r \in 1..Cardinality(keep) |-> s[nth(r)]]

\* C1: after any sequence of add_line2d, remove_multiple_line2d and
\* change_lines_order calls the display positions are a bijection of the
\* live curves onto [0, n): one position per curve, no position twice,
\* contiguous from 0.
C1_PositionsBijection ==
    /\ Len(qidx) = Len(lines)
    /\ \A a, b \in 1..Len(qidx) : qidx[a] = qidx[b] => a = b
    /\ Range(qidx) = 0..Len(lines) - 1

\* C2: once a reference was activated, a deactivation that goes through
\* leaves every curve with exactly the (x, y) it had before the activation,
\* also the curves that lost samples outside the reference's x range.
C2_RoundTrip ==
    (last.op = "deactivate" /\ last.sig = "deactivated") =>
        \A g \in 1..Len(lines) :
            /\ lines[g].id \in DOMAIN pre.xy
            /\ [x |-> lines[g].x, y |-> lines[g].y] = pre.xy[lines[g].id]

\* A deactivation went through and some curve has a sample below the x
\* range of the curve that was the reference: activation had dropped it.
C2_Witness ==
    /\ last.op = "deactivate" /\ last.sig = "deactivated"
    /\ \E g \in 1..Len(lines) :
           /\ lines[g].x[1] < pre.xy[pre.ref].x[1]
           /\ Len(lines[g].x) = 2

\* C3: a remove_multiple_line2d call whose positions contain the active
\* reference's position deactivates the reference, then removes the curves:
\* afterwards no reference is active, the curves at the given positions are
\* gone and no remaining curve holds rebased data.
C3_RemoveReference ==
    [][\A ix \in RemoveArgs :
        (HasRef(Cur) /\ RefI(Cur) \in Range(ix) /\ Remove(ix)) =>
            /\ ref' = <<>>
            /\ Len(lines') = Len(lines) - Len(ix)
            /\ \A g \in 1..Len(lines') : Unrebased(lines'[g])]_vars

\* C4: while a reference is active the tracked position _ref_index_x_y[0]
\* is the display position of the very curve that was activated as
\* reference, and that curve is live.
C4_ReferenceTracked ==
    HasRef(Cur) =>
        \E g \in 1..Len(lines) :
            /\ lines[g].id = pre.ref
            /\ g <= Len(qidx)
            /\ qidx[g] = RefI(Cur)

\* C5: a deactivate_reference_curve call made while a reference is active
\* succeeds, also after a curve was added in between: it clears the
\* reference and leaves every curve with its un-rebased (x, y).
C5_DeactivateAfterAdd ==
    (last.op = "deactivate" /\ last.sig # "failed") =>
        /\ last.exc = "none"
        /\ ref = <<>>
        /\ \A g \in 1..Len(lines) : Unrebased(lines[g])

\* C6: activate_reference_curve called while a reference is active changes
\* no curve, leaves the tracked reference (position and stored samples) and
\* the y-limits policy as they were and emits signal_reference_curve_failed,
\* whatever position it is given.
C6_SecondActivateRejected ==
    HasRef(Cur) =>
        \A i \in AnyActivateArgs :
            ActivateOutcome(Cur, i) = [st |-> Cur, exc |-> "none", sig |-> "failed"]

\* A second activation was tried on a widget that has a reference and curves.
C6_Witness ==
    /\ last.op = "activate" /\ last.sig = "failed"
    /\ HasRef(Cur) /\ Len(lines) >= 2

\* C7: deactivate_reference_curve called while no reference is active
\* changes no curve, leaves the y-limits policy and the absent reference as
\* they were and emits signal_reference_curve_failed.
C7_DeactivateWithoutReference ==
    ~HasRef(Cur) =>
        DeactivateOutcome(Cur) = [st |-> Cur, exc |-> "none", sig |-> "failed"]

\* A deactivation was tried on a widget with curves and no reference.
C7_Witness ==
    /\ last.op = "deactivate" /\ last.sig = "failed"
    /\ ~HasRef(Cur) /\ Len(lines) >= 1

\* C8: removing a list of distinct valid display positions leaves exactly
\* the curves whose positions were not in the list, at the positions
\* 0..n-|S|-1, in the relative order they had.
C8_RemoveReindexes ==
    [][\A ix \in RemoveArgs :
        Remove(ix) =>
            /\ Len(lines') = Len(qidx')
            /\ Range(qidx') = 0..Len(lines) - Len(ix) - 1
            /\ OrderedIds(lines', qidx') = Without(OrderedIds(lines, qidx), ix)]_vars

\* C9: remove_multiple_line2d ends in the same state (curves, display
\* positions, tracked reference position, exception) for every ordering of
\* the same list of positions.
C9_RemoveOrderIndependent ==
    \A ix \in AnyRemoveArgs :
        \A f \in Bijections(Len(ix)) :
            RemoveOutcome(Cur, [k \in 1..Len(ix) |-> ix[f[k - 1] + 1]])
                = RemoveOutcome(Cur, ix)

\* Two curves, not next to each other in the list, were removed in one call.
C9_Witness ==
    /\ last.op = "remove" /\ last.arg = <<2, 0>> /\ last.exc = "none"
    /\ Len(lines) = 1 /\ qidx = <<0>>

\* C10: add_line2d at a position p with 0 <= p <= n puts the new curve at
\* p, moves every curve that was at a position >= p up by one and leaves
\* the curves below p where they were.
C10_AddShiftsPositions ==
    \A p \in InsertArgs, label \in Labels, data \in Curves :
        LET res == AddOutcome(Cur, nextId, p, label, data).st
        IN  /\ Len(res.lines) = Len(lines) + 1
            /\ PositionOf(res.lines, res.qidx, nextId) = p
            /\ \A g \in 1..Len(lines) :
                  PositionOf(res.lines, res.qidx, lines[g].id) =
                      IF qidx[g] >= p THEN qidx[g] + 1 ELSE qidx[g]

\* A curve was inserted between two others.
C10_Witness ==
    /\ last.op = "add" /\ last.arg = <<1>>
    /\ Len(lines) = 3 /\ qidx[3] = 1

\* C11: add_line2d with a display position that is negative or greater than
\* the number of curves fails and leaves the curves, the display positions
\* and the tracked reference position as they were.
C11_AddRangeError ==
    [][\A i \in AnyInsertArgs \ InsertArgs, label \in Labels, data \in Curves :
        Add(i, label, data) =>
            /\ last'.exc # "none"
            /\ UNCHANGED <<lines, qidx, ref>>]_vars

\* C12: remove_multiple_line2d given a list with a display position that is
\* negative or >= n fails and is all-or-nothing: no curve is removed, no
\* display position changes, the tracked reference position stays.
C12_RemoveAllOrNothing ==
    [][\A ix \in AnyRemoveArgs :
        ((\E k \in 1..Len(ix) : ~ValidPosition(ix[k])) /\ Remove(ix)) =>
            /\ last'.exc # "none"
            /\ UNCHANGED <<lines, qidx, ref>>]_vars

\* C13: change_lines_order given a mapping that is not a bijection of the
\* live display positions onto themselves fails and leaves the display
\* positions and the tracked reference position as they were.
C13_ReorderValidated ==
    [][\A m \in AnyReorderArgs \ ReorderArgs :
        Reorder(m) =>
            /\ last'.exc # "none"
            /\ UNCHANGED <<qidx, ref>>]_vars

\* C14: add_line2d given data whose x is not strictly increasing, or whose x
\* and y differ in length, fails, adds no curve and changes no display
\* position, also when the position it is given is valid.
C14_AddDataValidated ==
    [][\A i \in InsertArgs, label \in Labels, data \in AnyCurves \ Curves :
        Add(i, label, data) =>
            /\ last'.exc # "none"
            /\ UNCHANGED <<lines, qidx>>]_vars

\* The subsequence of s at the places in keep.
Pick(s, keep) ==
    LET nth(r) == CHOOSE k \in keep : Cardinality({h \in keep : h < k}) = r - 1
    IN  [r \in 1..Cardinality(keep) |-> s[nth(r)]]

\* The smallest and the largest element of a sequence of numbers.
MinOf(s) == CHOOSE v \in Range(s) : \A w \in Range(s) : v <= w
MaxOf(s) == CHOOSE v \in Range(s) : \A w \in Range(s) : v >= w

\* C15: after a successful activate_reference_curve every curve keeps
\* exactly those of its samples whose x lies within [min, max] of the
\* reference's x, each with y reduced by the interpolated reference value;
\* the other samples are dropped, x and y stay the same length and no curve
\* holds an undefined y.
C15_ActivateRebases ==
    ~HasRef(Cur) =>
        \A i \in ActivateArgs :
            LET out == ActivateOutcome(Cur, i)
                rl == lines[GraphIndexOf(Cur, i)]
            IN  out.sig = "activated" =>
                  \A g \in 1..Len(lines) :
                      LET old == lines[g]
                          new == out.st.lines[g]
                          keep == {k \in 1..Len(old.x) :
                                     MinOf(rl.x) <= old.x[k] /\ old.x[k] <= MaxOf(rl.x)}
                          intp == ReferenceCurveInterpolated(old.x, rl.x, rl.y)
                      IN  /\ new.x = Pick(old.x, keep)
                          /\ new.y = Pick([k \in 1..Len(old.y) |-> old.y[k] - intp[k]], keep)
                          /\ Len(new.x) = Len(new.y)
                          /\ NaN \notin Range(new.y)

\* A reference was activated and a curve lost a sample outside its x range.
C15_Witness ==
    /\ last.op = "activate" /\ last.sig = "activated"
    /\ \E g \in 1..Len(lines) :
           /\ Len(lines[g].x) < Len(lines[g].raw.x)
           /\ Len(lines[g].x) = Len(lines[g].y)

\* C16: a curve added while a reference is active gets the same (x, y) it
\* would have had if it had been added first and the same reference
\* activated afterwards, the dropping of samples outside the reference's x
\* range included.
C16_AddRebasedAlike ==
    [][\A p \in InsertArgs, label \in Labels, data \in Curves :
        (HasRef(Cur) /\ Add(p, label, data)) =>
            LET new == lines'[Len(lines')]
                exp == ActivateLine([x |-> data.x, y |-> data.y, orig |-> <<>>],
                                    ref[1].x, ref[1].y)
            IN  new.x = exp.x /\ new.y = exp.y]_vars

\* The visibility states whose opacity, legend marker and line width a line
\* shows; hidden and reference-suppressed look alike ("suppressed").
LookStates(line) ==
    {n \in {"visible", "highlighted", "suppressed"} :
        \/ /\ n = "visible"
           /\ line.alpha = AlphaNormal /\ line.label[1] # "_"
           /\ line.lw <= LwDefault
        \/ /\ n = "highlighted"
           /\ line.alpha = AlphaHighlighted /\ line.label[1] # "_"
           /\ line.lw >= LwDefault * 2
        \/ /\ n = "suppressed"
           /\ line.alpha = AlphaHidden /\ line.label[1] = "_"
           /\ Len(line.label) > 1 /\ line.label[2] # "_"}

\* The look the flags of an update ask for.
AskedLook(item) ==
    IF item.reference THEN "suppressed"
    ELSE IF item.highlighted THEN "highlighted"
    ELSE IF item.visible THEN "visible"
    ELSE "suppressed"

\* C17: after an update_labels_and_visibilities call, for every combination
\* of the visible, highlighted and reference flags and for a label given
\* with or without markers, each updated curve shows exactly one state, the
\* one its flags ask for: a curve that was hidden and gets highlighted=True
\* has the emphasized opacity and no marker left.
C17_OneVisibilityState ==
    \A items \in UpdateItems(NewLabels \cup {<<<<"_", "_", "b">>>>}) :
        LET out == UpdateLabelsOutcome(Cur, items)
        IN  /\ out.exc = "none"
            /\ \A k \in 1..Len(items) :
                  LookStates(out.st.lines[GraphIndexOf(Cur, items[k].i)])
                      = {AskedLook(items[k])}

\* The only curve was hidden and an update has made it highlighted.
C17_Witness ==
    /\ last.op = "relabel" /\ last.arg = <<AlphaHidden>> /\ last.exc = "none"
    /\ Len(lines) = 1
    /\ lines[1].alpha = AlphaHighlighted /\ lines[1].label = <<"a">>

\* The line identities the legend shows, none without a legend.
LegendEntries == IF legend = <<>> THEN <<>> ELSE legend[1].handles

\* C18: after a successful activate_reference_curve the reference curve is
\* reference-suppressed: suppressed opacity, not among the legend entries,
\* z-order in the lowest band.
C18_ReferenceSuppressed ==
    (last.op = "activate" /\ last.sig = "activated") =>
        LET rl == lines[GraphIndexOf(Cur, RefI(Cur))]
        IN  /\ rl.alpha = AlphaHidden
            /\ rl.id \notin Range(LegendEntries)
            /\ rl.zorder < 0

\* C19: after a deactivate_reference_curve that went through, the curve that
\* was the reference has the opacity and the label (marker included) it had
\* before it became the reference.
C19_ReferenceLookRestored ==
    (last.op = "deactivate" /\ last.sig = "deactivated") =>
        \A g \in 1..Len(lines) :
            lines[g].id = pre.ref => Look(lines[g]) = pre.look

\* C20: the legend entries are the curves that are not hidden or
\* reference-suppressed, in display order, cut to the first max_legend_size
\* of them when max_legend_size is positive.
C20_LegendEntries ==
    LET shown == SelectSeq(GetLinesInQlistOrder(Cur),
                           LAMBDA l : "suppressed" \notin LookStates(l))
        kept == IF max_legend_size > 0 /\ Len(shown) > max_legend_size
                THEN max_legend_size ELSE Len(shown)
    IN  LegendEntries = [r \in 1..kept |-> shown[r].id]

\* The z-order band of the line at graph index g: a hidden curve (marker on
\* its label) or the tracked reference is "low", another curve with the
\* emphasized opacity is "high", every other curve is "normal".
Band(g) ==
    IF lines[g].label[1] = "_" \/ (HasRef(Cur) /\ RefI(Cur) = qidx[g]) THEN "low"
    ELSE IF lines[g].alpha = AlphaHighlighted THEN "high"
    ELSE "normal"

\* C21: every hidden or reference curve has a lower z-order than every
\* normally visible curve, every highlighted curve has a higher z-order
\* than every curve that is not highlighted, whatever their display
\* positions, and within one band the curve at the smaller display position
\* has the higher z-order.
C21_ZorderBands ==
    \A g, h \in 1..Len(lines) :
        /\ (Band(g) = "low" /\ Band(h) = "normal") => lines[g].zorder < lines[h].zorder
        /\ (Band(g) = "high" /\ Band(h) # "high") => lines[g].zorder > lines[h].zorder
        /\ (Band(g) = Band(h) /\ qidx[g] < qidx[h]) => lines[g].zorder > lines[h].zorder

\* After an update the curve at position 0 is hidden and the curve at
\* position 1 is highlighted.
C21_Witness ==
    /\ last.op = "relabel" /\ last.exc = "none" /\ Len(lines) = 2
    /\ \E g, h \in 1..2 :
           /\ qidx[g] = 0 /\ Band(g) = "low" /\ lines[g].alpha = AlphaHidden
           /\ qidx[h] = 1 /\ Band(h) = "high"

\* The number of markers in front of a label.
Markers(label) == Len(label) - Len(StripMarkers(label))

\* Labels any caller can send with an update: with markers in front, or
\* nothing but a marker.
AnyNewLabels == NewLabels \cup {<<<<"_", "_", "b">>>>, <<<<"_">>>>}

\* C22: an update_labels_and_visibilities call, for any label it is given,
\* leaves a curve set to hidden or reference with exactly one marker in
\* front of its label and a curve set to visible or highlighted with none.
C22_MarkerNeverDuplicated ==
    \A items \in UpdateItems(AnyNewLabels) :
        LET out == UpdateLabelsOutcome(Cur, items)
        IN  /\ out.exc = "none"
            /\ \A k \in 1..Len(items) :
                  Markers(out.st.lines[GraphIndexOf(Cur, items[k].i)].label)
                      = IF AskedLook(items[k]) = "suppressed" THEN 1 ELSE 0

\* Every sample of every curve, as a set, and those of the curves the SPL
\* policy keeps.
AllSamples == UNION {Range(lines[g].y) : g \in 1..Len(lines)}
KeptSamples ==
    UNION {Range(lines[g].y) :
              g \in {h \in 1..Len(lines) : XpeakLimited \notin Range(lines[h].label)}}

Abs(v) == IF v < 0 THEN -v ELSE v

\* C25: under the reference-relative policy the limits update_figure sets
\* are (-g, g) with g >= 1, g the largest absolute y over all curves rounded
\* outward to a multiple of 5, and every sample lies within [-g, g].
C25_ReferenceLimitsCoverSamples ==
    (/\ policy = "reference_curve" /\ Len(lines) > 0
     /\ UpdateFigureExc(Cur, TRUE) = "none")
    => LET lim == UpdateFigure(Cur, TRUE).ylim
       IN  /\ lim[1] = -lim[2] /\ lim[2] >= 1
           /\ lim[2] % 5 = 0 \/ lim[2] = 1
           /\ \E v \in AllSamples : lim[2] - 5 < Abs(v) \/ lim[2] = 1
           /\ \A v \in AllSamples : lim[1] <= v /\ v <= lim[2]

\* The limits update_figure would set now.
LimitsNow == UpdateFigure(Cur, TRUE).ylim

\* C26: under the SPL policy, over the curves whose label does not contain
\* "Xpeak limited", the upper limit update_figure sets is a multiple of 5
\* that is at least the largest sample plus 3, and the span between lower
\* and upper limit is a multiple of 5 between 20 and 45.
C26_SplLimits ==
    (/\ policy = "SPL" /\ KeptSamples # {}
     /\ UpdateFigureExc(Cur, TRUE) = "none")
    => /\ LimitsNow[2] % 5 = 0
       /\ \A v \in KeptSamples : LimitsNow[2] >= v + 3
       /\ (LimitsNow[2] - LimitsNow[1]) % 5 = 0
       /\ 20 <= LimitsNow[2] - LimitsNow[1]
       /\ LimitsNow[2] - LimitsNow[1] <= 45

\* add_line2d has set the SPL limits over two curves of which the one left
\* out has the largest sample, above the upper limit.
C26_Witness ==
    /\ policy = "SPL" /\ last.op = "add" /\ last.exc = "none"
    /\ Len(lines) = 2 /\ KeptSamples # {} /\ KeptSamples # AllSamples
    /\ ylim = LimitsNow
    /\ \E v \in AllSamples : ylim[2] < v

\* The policy names update_figure has a branch for.
RecognizedPolicies == {"None", "reference_curve", "SPL", "impedance", "phase", "fixed"}

\* C27: update_figure computing the limits under a policy name it does not
\* recognize ends with a validation error.
C27_UnknownPolicyRejected ==
    (last.op = "add" /\ policy \notin RecognizedPolicies)
    => last.exc = "ValidationError"

\* C23: _reference_curve_interpolated returns NaN for every target below
\* the reference's smallest x or above its largest x, and a defined value
\* for every target inside that closed range.
C23_UndefinedOutsideRange ==
    interp.call # <<>>
    => LET c == interp.call[1]
       IN  /\ Len(c.out) = Len(c.key.x)
           /\ \A k \in 1..Len(c.key.x) :
                 (c.out[k] = NaN)
                     <=> (c.key.x[k] < MinOf(c.key.rx) \/ c.key.x[k] > MaxOf(c.key.rx))

\* A computed call with a target below, one inside and one above the range.
C23_Witness ==
    /\ interp.call # <<>> /\ ~interp.call[1].hit
    /\ \E a, b, c \in 1..Len(interp.call[1].key.x) :
          /\ interp.call[1].key.x[a] < MinOf(interp.call[1].key.rx)
          /\ interp.call[1].out[a] = NaN
          /\ interp.call[1].key.x[b] > MaxOf(interp.call[1].key.rx)
          /\ interp.call[1].out[b] = NaN
          /\ MinOf(interp.call[1].key.rx) < interp.call[1].key.x[c]
          /\ interp.call[1].key.x[c] < MaxOf(interp.call[1].key.rx)
          /\ interp.call[1].out[c] # NaN

C28_OneNotification ==
    [][last'.op \in {"activate", "deactivate"}
        => /\ last'.sig \in {"activated", "deactivated", "failed"}
           /\ (last'.sig \in {"activated", "deactivated"}) <=> ((ref = <<>>) # (ref' = <<>>))
           /\ (last'.sig = "failed") <=> UNCHANGED <<lines, qidx, ref, policy>>]_vars

\* C29: after a successful activate_reference_curve the reference curve
\* keeps all of its x samples and every one of its y values is zero, while
\* _ref_index_x_y[1:3] holds the x and y it had before the activation.
C29_ReferenceRebasedOnItself ==
    ~HasRef(Cur) =>
        \A i \in ActivateArgs :
            LET out == ActivateOutcome(Cur, i)
                old == lines[GraphIndexOf(Cur, i)]
                new == out.st.lines[GraphIndexOf(Cur, i)]
            IN  out.sig = "activated" =>
                  /\ new.x = old.x
                  /\ Len(new.y) = Len(old.y)
                  /\ \A k \in 1..Len(new.y) : new.y[k] = 0
                  /\ out.st.ref[1].x = old.x
                  /\ out.st.ref[1].y = old.y

\* A curve with y other than zero was activated as the reference of two
\* curves.
C29_Witness ==
    /\ last.op = "activate" /\ last.sig = "activated" /\ Len(lines) = 2
    /\ ref # <<>>
    /\ \E g \in 1..Len(lines) :
           /\ qidx[g] = ref[1].i
           /\ lines[g].x = ref[1].x /\ ref[1].y = lines[g].raw.y
           /\ \A k \in 1..Len(lines[g].y) : lines[g].y[k] = 0 /\ ref[1].y[k] # 0

\* C30: clear_graph completes and leaves the widget empty: no curve in the
\* axes, an empty array of display positions and no active reference.
C30_ClearGraphEmpties ==
    last.op = "clear"
    => /\ last.exc = "none"
       /\ lines = <<>> /\ qidx = <<>> /\ ref = <<>>

\* The position array is parallel to the list of lines: one entry per line,
\* and every position of the list is held by exactly one line, so that
\* get_line_in_qlist_order finds one line for each.
Parallel(ls, q) ==
    /\ Len(q) = Len(ls)
    /\ \A p \in 0..Len(ls) - 1 :
          Cardinality({g \in 1..Len(q) : q[g] = p}) = 1

\* C31: every add_line2d and remove_multiple_line2d call leaves the
\* display-position array parallel to the axes' list of lines.
C31_ParallelArray ==
    [][(last'.op \in {"add", "remove"} /\ Parallel(lines, qidx))
          => Parallel(lines', qidx')]_vars

\* C32: the y-limits policy is "reference_curve" after every successful
\* activate_reference_curve and "SPL" after every successful
\* deactivate_reference_curve, also the one remove_multiple_line2d makes,
\* whatever the policy was before.
C32_PolicyFollowsReference ==
    /\ (last.op = "activate" /\ last.sig = "activated") => policy = "reference_curve"
    /\ (last.op \in {"deactivate", "remove"} /\ last.sig = "deactivated") => policy = "SPL"
    /\ \A i \in ActivateArgs :
          ActivateOutcome(Cur, i).sig = "activated"
              => ActivateOutcome(Cur, i).st.policy = "reference_curve"
    /\ \A ix \in RemoveArgs :
          RemoveOutcome(Cur, ix).sig = "deactivated"
              => RemoveOutcome(Cur, ix).st.policy = "SPL"

\* A deactivation that found the policy set to "impedance" went through
\* and left it at "SPL".
C32_Witness ==
    /\ last.op = "deactivate" /\ last.sig = "deactivated"
    /\ last.arg = <<"impedance">>
    /\ policy = "SPL" /\ ref = <<>> /\ Len(lines) > 0

\* The samples of every curve that are defined.
DefinedSamples == AllSamples \ {NaN}

\* C33: under the impedance policy with at least one curve the lower limit
\* update_figure sets is 0 and the upper limit is a multiple of 5 that is
\* at least the largest y plus 2 and less than the largest y plus 7.
C33_ImpedanceLimits ==
    (/\ policy = "impedance" /\ Len(lines) > 0
     /\ UpdateFigureExc(Cur, TRUE) = "none")
    => /\ LimitsNow[1] = 0
       /\ LimitsNow[2] % 5 = 0
       /\ \A v \in DefinedSamples : LimitsNow[2] >= v + 2
       /\ \E v \in DefinedSamples : LimitsNow[2] < v + 7

\* A label without its markers in front and without " - reference" behind.
BareLabel(label) ==
    LET t == StripMarkers(label)
    IN  IF Len(t) > 0 /\ t[Len(t)] = " - reference" THEN SubSeq(t, 1, Len(t) - 1) ELSE t

\* C34: while a reference is active the legend's title is "Relative to: "
\* and the bare label of the curve at the tracked reference position, which
\* is the curve that was activated as reference; while none is active the
\* legend has no title.
C34_LegendTitle ==
    IF ref = <<>>
    THEN legend = <<>> \/ legend[1].title = <<>>
    ELSE /\ legend # <<>>
         /\ \E g \in 1..Len(lines) :
               /\ qidx[g] = ref[1].i
               /\ lines[g].id = pre.ref
               /\ legend[1].title = <<BareLabel(lines[g].label)>>

====
